---- MODULE Spec2Model ----
(***************************************************************************)
(* Pomodoro timer (src/src/main.rs): a timer thread that counts sessions   *)
(* down, and the main thread that reads command lines from standard input  *)
(* and sends them over an mpsc channel; the two also share the atomic      *)
(* flag `running`.  Every step is one access to shared state (the flag or  *)
(* the channel) together with the thread-local code around it.             *)
(* Durations are kept as their whole seconds; a clock reading taken after  *)
(* a sleep lies strictly between two whole seconds.  Writing to standard   *)
(* output can fail at any time, which panics the writing thread.  A panic  *)
(* of the main thread drops the sender and then ends the process; until    *)
(* the process has ended the timer thread runs on.                         *)
(***************************************************************************)
EXTENDS Integers, Sequences, FiniteSets, TLC

\* ---------------------------------------------------------------- bounds
\* Largest configured work / break duration, in minutes.
MaxMinutes == 1
\* Number of input lines the main thread reads at most.
MaxLines == 2
\* Number of sessions the timer thread starts at most.
MaxSessions == 2
\* Largest whole-second overshoot of one thread::sleep(1 s).
MaxOvershoot == 2
\* The same bounds for the long runs (LongSpec): more sessions of more
\* durations, with fewer input lines.
MaxLongMinutes == 2
MaxLongSessions == 3
MaxLongLines == 1

\* ------------------------------------------------------- program constants
\* Duration::from_secs(duration_minutes * 60)
SecsPerMinute == 60
\* thread::sleep(Duration::from_secs(1))
TickSecs == 1
\* if value > 0: the smallest duration the configuration accepts
MinMinutes == 1

VARIABLES
    work_minutes,    \* configured work duration (minutes)
    break_minutes,   \* configured break duration (minutes)
    running,         \* the shared AtomicBool
    chan,            \* the mpsc channel: commands sent and not yet received
    timerPc,         \* position of the timer thread
    current_state,   \* TimerState of the timer thread
    session_count,   \* sessions counted by the timer thread
    elapsed_time,    \* whole seconds elapsed in the current countdown
    display,         \* <<minutes, seconds>> last printed as "Time remaining"
    mainPc,          \* position of the main (input) thread
    nLines,          \* items taken from stdin().lines() so far
    \* history (not read by the program)
    started,         \* labels of the "Session Started" lines, in order
    finished,        \* labels of the "Session Finished!" lines, in order
    sentLog,         \* commands sent on the channel, in order
    recvLog,         \* commands received from the channel, in order
    exitKind,        \* how the last countdown loop was left
    quit,            \* the main thread has handled a "q" line
    ticksAfterStop,  \* countdown ticks slept through while running was false
    nNatural,        \* countdowns that ran to completion
    finNotified,     \* the current session printed its "Finished" line
    exactTick,       \* ticks slept in this countdown (counted under
                     \* ExactSpec, where no tick overshoots by a second)
    goodbye,         \* the main thread printed its final message
    mainPanic,       \* why main panicked: "io" (standard input or output
                     \* failed), "send" or "join"
    lastLine         \* the line read last (recorded under InputSpec)

vars == <<work_minutes, break_minutes, running, chan, timerPc, current_state,
          session_count, elapsed_time, display, mainPc, nLines, started,
          finished, sentLog, recvLog, exitKind, quit, ticksAfterStop, nNatural,
          finNotified, exactTick, goodbye, mainPanic, lastLine>>

timerVars == <<timerPc, current_state, session_count, elapsed_time, display>>
histTimer == <<started, finished, recvLog, exitKind, ticksAfterStop,
               nNatural, finNotified, exactTick>>
mainVars  == <<mainPc, nLines, quit, goodbye, sentLog, mainPanic>>
config    == <<work_minutes, break_minutes>>

\* ------------------------------------------------------------ input lines
\* char::is_whitespace, the characters str::trim strips: the 25 characters
\* of Unicode's White_Space property.  A character other than space and tab
\* is written as its code point.
Whitespace ==
    {"\t", "U+000A", "U+000B", "U+000C", "U+000D", " ", "U+0085", "U+00A0",
     "U+1680", "U+2000", "U+2001", "U+2002", "U+2003", "U+2004", "U+2005",
     "U+2006", "U+2007", "U+2008", "U+2009", "U+200A", "U+2028", "U+2029",
     "U+202F", "U+205F", "U+3000"}

\* The lines standard input may deliver as text (sequences of characters).
Lines == { <<"p">>, <<" ", "P">>, <<"r">>, <<"R", " ">>, <<"s">>,
           <<"\t", "S", " ">>, <<"q">>, <<" ", "Q", " ">>,
           <<"x">>, <<>>, <<"p", "p">>, <<"q", " ", "q">>,
           <<"p", "U+000C">>, <<"U+000D", "q">>, <<"U+00A0", "S", "U+2003">>,
           <<"Q", "U", "I", "T">> }

RECURSIVE TrimStart(_)
TrimStart(s) ==
    IF s # <<>> /\ Head(s) \in Whitespace THEN TrimStart(Tail(s)) ELSE s

RECURSIVE TrimEnd(_)
TrimEnd(s) ==
    IF s # <<>> /\ s[Len(s)] \in Whitespace
    THEN TrimEnd(SubSeq(s, 1, Len(s) - 1)) ELSE s

\* str::trim
Trim(s) == TrimEnd(TrimStart(s))

UpperCase == <<"A", "B", "C", "D", "E", "F", "G", "H", "I", "J", "K", "L", "M",
               "N", "O", "P", "Q", "R", "S", "T", "U", "V", "W", "X", "Y", "Z">>
LowerCase == <<"a", "b", "c", "d", "e", "f", "g", "h", "i", "j", "k", "l", "m",
               "n", "o", "p", "q", "r", "s", "t", "u", "v", "w", "x", "y", "z">>

\* char::to_lowercase on the letters A-Z; every other character of the
\* model's alphabet has no lower-case form and stays.
LowerChar(c) ==
    IF \E i \in DOMAIN UpperCase : UpperCase[i] = c
    THEN LowerCase[CHOOSE i \in DOMAIN UpperCase : UpperCase[i] = c]
    ELSE c

\* Variant: the input is not lower-cased.
ToLowercase_Keep(s) == s

\* str::to_lowercase
ToLowercase(s) == [i \in 1..Len(s) |-> LowerChar(s[i])]

\* The match of the input loop: the command a line stands for, or "Unknown".
ParseLine(line) ==
    LET input == ToLowercase(Trim(line)) IN
    CASE input = <<"p">> -> "Pause"
      [] input = <<"r">> -> "Resume"
      [] input = <<"s">> -> "Skip"
      [] input = <<"q">> -> "Quit"
      [] OTHER -> "Unknown"

\* ------------------------------------------------------------ timer helpers
\* Variant: the outer loop never looks at the flag (loop { .. }).
OuterCond_Always(run) == TRUE

\* while running_clone.load(..)
OuterCond(run) == run

\* Variant: Paused is matched like Work, so an idle pass starts a session.
SessionFor_PausedRuns(st, w, b) ==
    CASE st = "Break" -> [idle |-> FALSE, minutes |-> b, label |-> "Break"]
      [] st \in {"Work", "Paused"} ->
                         [idle |-> FALSE, minutes |-> w, label |-> "Work"]
      [] OTHER        -> [idle |-> TRUE,  minutes |-> 0, label |-> "none"]

\* The match on current_state at the top of the outer loop.
SessionFor(st, w, b) ==
    CASE st = "Work"  -> [idle |-> FALSE, minutes |-> w, label |-> "Work"]
      [] st = "Break" -> [idle |-> FALSE, minutes |-> b, label |-> "Break"]
      [] OTHER        -> [idle |-> TRUE,  minutes |-> 0, label |-> "none"]

\* Duration::from_secs(duration_minutes * 60)
SessionDuration(minutes) == minutes * SecsPerMinute

\* Duration of the session of state st (the last one selected).
DurationOf(st) ==
    SessionDuration(SessionFor(st, work_minutes, break_minutes).minutes)

\* Variant: the countdown goes on while elapsed <= duration.
InnerCond_Inclusive(el, dur) == el <= dur

\* while elapsed_time < session_duration
InnerCond(el, dur) == el < dur

\* Whether an elapsed time of el whole seconds has a sub-second part:
\* Duration::new(0, 0) has none; Instant::now().duration_since(start_time),
\* read after a sleep of at least one second, has one.
HasSubSecond(el) == el > 0

\* (session_duration - elapsed_time).as_secs(): the whole seconds of the
\* remaining time, the sub-second part being cut off.
RemainingSecs(el, dur) == IF HasSubSecond(el) THEN dur - el - 1 ELSE dur - el

\* remaining.as_secs() / 60 and remaining.as_secs() % 60
RemainingDisplay(el, dur) ==
    LET remaining == RemainingSecs(el, dur)
    IN  <<remaining \div 60, remaining % 60>>

\* Variant: the Quit arm also records the Stopped state.
RecvArm_QuitStops(cmd, st, run) ==
    CASE cmd = "Pause"  -> [state |-> "Paused", running |-> run, brk |-> TRUE,
                            kind |-> "pause"]
      [] cmd = "Skip"   -> [state |-> st, running |-> run, brk |-> TRUE,
                            kind |-> "skip"]
      [] cmd \in {"Quit", "Disconnected"} ->
                           [state |-> "Stopped", running |-> FALSE,
                            brk |-> TRUE, kind |-> "quit"]
      [] OTHER          -> [state |-> st, running |-> run, brk |-> FALSE,
                            kind |-> "none"]

\* Variant: the Pause arm also sets the shutdown flag.
RecvArm_PauseStops(cmd, st, run) ==
    CASE cmd = "Pause"  -> [state |-> "Paused", running |-> FALSE,
                            brk |-> TRUE, kind |-> "pause"]
      [] cmd = "Skip"   -> [state |-> st, running |-> run, brk |-> TRUE,
                            kind |-> "skip"]
      [] cmd \in {"Quit", "Disconnected"} ->
                           [state |-> st, running |-> FALSE, brk |-> TRUE,
                            kind |-> "quit"]
      [] OTHER          -> [state |-> st, running |-> run, brk |-> FALSE,
                            kind |-> "none"]

\* The arms of match receiver.try_recv(): what receiving cmd (or "Empty",
\* "Disconnected") does to the state and the flag, and whether it breaks.
RecvArm(cmd, st, run) ==
    CASE cmd = "Pause"  -> [state |-> "Paused", running |-> run, brk |-> TRUE,
                            kind |-> "pause"]
      [] cmd = "Skip"   -> [state |-> st, running |-> run, brk |-> TRUE,
                            kind |-> "skip"]
      [] cmd = "Quit"   -> [state |-> st, running |-> FALSE, brk |-> TRUE,
                            kind |-> "quit"]
      [] cmd = "Disconnected" ->
                           [state |-> st, running |-> FALSE, brk |-> TRUE,
                            kind |-> "disconnected"]
      [] OTHER          -> [state |-> st, running |-> run, brk |-> FALSE,
                            kind |-> "none"]

\* The arms that print a line (println!) before they break.
ArmPrints(cmd) == cmd \in {"Pause", "Skip"}

\* if let TimerState::Paused = current_state { continue; }
PausedContinue(st) == st = "Paused"

\* Variant: the finish line is printed whenever the flag is still true.
FinishCond_FlagOnly(run, el, dur) == run

\* if running_clone.load(..) && elapsed_time >= session_duration
FinishCond(run, el, dur) == run /\ el >= dur

\* Variant: the state switch is not guarded by the flag.
SwitchCond_Always(run) == TRUE

\* if running_clone.load(..) before the state switch
SwitchCond(run) == run

\* Variant: the Break arm counts the session but keeps the state.
Switch_BreakStays(st, cnt) ==
    CASE st = "Work"  -> [state |-> "Break", count |-> cnt + 1]
      [] st = "Break" -> [state |-> "Break", count |-> cnt + 1]
      [] OTHER        -> [state |-> st,      count |-> cnt]

\* Variant: the Break arm restarts the count for the next work/break cycle.
Switch_ResetCount(st, cnt) ==
    CASE st = "Work"  -> [state |-> "Break", count |-> cnt + 1]
      [] st = "Break" -> [state |-> "Work",  count |-> 0]
      [] OTHER        -> [state |-> st,      count |-> cnt]

\* The match that switches states and counts the session.
Switch(st, cnt) ==
    CASE st = "Work"  -> [state |-> "Break", count |-> cnt + 1]
      [] st = "Break" -> [state |-> "Work",  count |-> cnt + 1]
      [] OTHER        -> [state |-> st,      count |-> cnt]

\* Variant: the "q" branch stores true.
QuitStoreValue_True == TRUE

\* running.store(false, ..) of the "q" branch
QuitStoreValue == FALSE

\* Variant: a send puts the command in front of the queued ones.
ChanSend_Front(ch, cmd) == <<cmd>> \o ch

\* sender.send(cmd) on the mpsc channel: the command joins the queue's end.
ChanSend(ch, cmd) == Append(ch, cmd)

\* receiver.try_recv() on a non-empty channel takes the oldest command.
ChanFront(ch) == Head(ch)
ChanRest(ch) == Tail(ch)

\* The receiver lives in the timer thread's closure; the sender in main.
ReceiverAlive == timerPc \notin {"exited", "panicked"}
SenderAlive   == mainPc \notin {"done", "panicked", "aborted"}

\* The process, and with it the timer thread, ends when main has returned,
\* or some time after main has panicked.
ProcessAlive == mainPc \notin {"done", "aborted"}

\* Whether a write to standard output (println!, flush().unwrap()) fails,
\* which panics the writing thread: up to the environment at every write.
WriteFails == BOOLEAN

\* ------------------------------------------------------------------- Init
\* The state when the timer thread is spawned, for configured durations
\* of up to maxMinutes.
InitWith(maxMinutes) ==
    /\ work_minutes \in MinMinutes..maxMinutes
    /\ break_minutes \in MinMinutes..maxMinutes
    /\ running = TRUE
    /\ chan = <<>>
    /\ timerPc = "outer"
    /\ current_state = "Work"
    /\ session_count = 0
    /\ elapsed_time = 0
    /\ display = <<0, 0>>
    /\ mainPc = "reading"
    /\ nLines = 0
    /\ started = <<>>
    /\ finished = <<>>
    /\ sentLog = <<>>
    /\ recvLog = <<>>
    /\ exitKind = "none"
    /\ quit = FALSE
    /\ ticksAfterStop = 0
    /\ nNatural = 0
    /\ finNotified = FALSE
    /\ exactTick = 0
    /\ goodbye = FALSE
    /\ mainPanic = "none"
    /\ lastLine = <<"none">>

Init == InitWith(MaxMinutes)

\* ----------------------------------------------------------- timer thread
\* Top of the outer loop: load running and match on the state.  When the
\* flag is false the loop is left and the closing line printed.  For Work and
\* Break the session starts: elapsed = 0, the "Started" line, then the audio
\* cue, whose spawn().unwrap() panics when the player cannot be launched,
\* then the hint line.  At most maxSessions sessions are started.
TimerOuterWith(maxSessions) ==
    /\ timerPc = "outer"
    /\ ProcessAlive
    /\ LET sess == SessionFor(current_state, work_minutes, break_minutes) IN
       IF ~OuterCond(running)
       THEN /\ \E stoppedFailed \in WriteFails :
                   timerPc' = IF stoppedFailed THEN "panicked" ELSE "exited"
            /\ UNCHANGED <<elapsed_time, started, exitKind, finNotified,
                           exactTick>>
       ELSE IF sess.idle
            THEN /\ timerPc' = "idle"
                 /\ UNCHANGED <<elapsed_time, started, exitKind, finNotified,
                                exactTick>>
            ELSE /\ Len(started) < maxSessions
                 /\ elapsed_time' = 0
                 /\ exitKind' = "none"
                 /\ finNotified' = FALSE
                 /\ exactTick' = 0
                 /\ \E startedFailed \in WriteFails :
                      IF startedFailed
                      THEN /\ started' = started
                           /\ timerPc' = "panicked"
                      ELSE /\ started' = Append(started, sess.label)
                           /\ \E spawnFailed \in BOOLEAN,
                                 hintFailed \in WriteFails :
                                timerPc' = IF spawnFailed \/ hintFailed
                                           THEN "panicked" ELSE "loop"
    /\ UNCHANGED <<current_state, session_count, display, running, chan,
                   finished, recvLog, ticksAfterStop, nNatural, mainVars,
                   config, lastLine>>

TimerOuter == TimerOuterWith(MaxSessions)

\* The same for the long runs.
TimerOuterLong == TimerOuterWith(MaxLongSessions)

\* Variant: the idle pass receives a queued Resume and goes back to Work.
TimerIdle_Resumes ==
    /\ timerPc = "idle"
    /\ ProcessAlive
    /\ timerPc' = "outer"
    /\ IF chan # <<>> /\ Head(chan) = "Resume"
       THEN /\ chan' = Tail(chan)
            /\ recvLog' = Append(recvLog, "Resume")
            /\ current_state' = "Work"
       ELSE UNCHANGED <<chan, recvLog, current_state>>
    /\ UNCHANGED <<session_count, elapsed_time, display, running, started,
                   finished, exitKind, ticksAfterStop, nNatural, finNotified,
                   exactTick, mainVars, config, lastLine>>

\* thread::sleep(100 ms); continue
TimerIdle ==
    /\ timerPc = "idle"
    /\ ProcessAlive
    /\ timerPc' = "outer"
    /\ UNCHANGED <<current_state, session_count, elapsed_time, display,
                   running, chan, histTimer, mainVars, config, lastLine>>

\* One pass of the countdown loop up to the sleep: loop condition, the
\* remaining-time line and its flush, try_recv and its arms (the Pause and
\* Skip arms print a line first), the Paused check.
TimerPoll ==
    /\ timerPc = "loop"
    /\ ProcessAlive
    /\ LET dur == DurationOf(current_state) IN
       IF ~InnerCond(elapsed_time, dur)
       THEN /\ timerPc' = "after"
            /\ exitKind' = "natural"
            /\ nNatural' = nNatural + 1
            /\ UNCHANGED <<display, chan, recvLog, current_state, running>>
       ELSE LET cmd == IF chan # <<>> THEN ChanFront(chan)
                       ELSE IF SenderAlive THEN "Empty" ELSE "Disconnected"
                arm == RecvArm(cmd, current_state, running)
            IN  \E flushFailed \in WriteFails :
                  IF flushFailed
                  THEN /\ timerPc' = "panicked"
                       /\ UNCHANGED <<display, chan, recvLog, current_state,
                                      running, exitKind, nNatural>>
                  ELSE /\ display' = RemainingDisplay(elapsed_time, dur)
                       /\ chan' = IF chan # <<>> THEN ChanRest(chan) ELSE chan
                       /\ recvLog' = IF chan # <<>> THEN Append(recvLog, cmd)
                                     ELSE recvLog
                       /\ UNCHANGED nNatural
                       /\ \E armFailed \in
                              IF ArmPrints(cmd) THEN WriteFails ELSE {FALSE} :
                            IF armFailed
                            THEN /\ timerPc' = "panicked"
                                 /\ UNCHANGED <<current_state, running,
                                                exitKind>>
                            ELSE /\ current_state' = arm.state
                                 /\ running' = arm.running
                                 /\ exitKind' = arm.kind
                                 /\ timerPc' =
                                      IF arm.brk \/ arm.state = "Paused"
                                      THEN "after" ELSE "sleep"
    /\ UNCHANGED <<session_count, elapsed_time, started, finished,
                   ticksAfterStop, finNotified, exactTick, mainVars, config,
                   lastLine>>

\* thread::sleep(1 s); elapsed_time = now - start_time, the sleep taking
\* one tick plus an overshoot from overshoots.
TimerTickWith(overshoots) ==
    /\ timerPc = "sleep"
    /\ ProcessAlive
    /\ \E over \in overshoots :
           elapsed_time' = elapsed_time + TickSecs + over
    /\ ticksAfterStop' = IF running THEN ticksAfterStop ELSE ticksAfterStop + 1
    /\ timerPc' = "loop"
    /\ UNCHANGED <<current_state, session_count, display, running, chan,
                   started, finished, recvLog, exitKind, nNatural, finNotified,
                   mainVars, config, lastLine>>

\* A tick whose sleep overshoots by any amount up to the bound.
TimerTick == TimerTickWith(0..MaxOvershoot) /\ UNCHANGED exactTick

\* A tick whose sleep takes one second and a fraction.
TimerTickExact == TimerTickWith({0}) /\ exactTick' = exactTick + 1

\* After the countdown: continue when Paused, else load running and, when
\* the countdown ran out, ring the bell (play_beep flushes) and print the
\* "Finished" line.
TimerAfter ==
    /\ timerPc = "after"
    /\ ProcessAlive
    /\ IF PausedContinue(current_state)
       THEN /\ timerPc' = "outer"
            /\ UNCHANGED <<finished, finNotified>>
       ELSE LET fin == FinishCond(running, elapsed_time,
                                  DurationOf(current_state))
            IN  \E beepFailed \in IF fin THEN WriteFails ELSE {FALSE},
                   finishedFailed \in IF fin THEN WriteFails ELSE {FALSE} :
                  IF beepFailed \/ finishedFailed
                  THEN /\ timerPc' = "panicked"
                       /\ UNCHANGED <<finished, finNotified>>
                  ELSE /\ timerPc' = "switch"
                       /\ finNotified' = fin
                       /\ finished' =
                            IF fin
                            THEN Append(finished,
                                   SessionFor(current_state, work_minutes,
                                              break_minutes).label)
                            ELSE finished
    /\ UNCHANGED <<current_state, session_count, elapsed_time, display,
                   running, chan, started, recvLog, exitKind, ticksAfterStop,
                   nNatural, exactTick, mainVars, config, lastLine>>

\* Load running again; switch the state and count the session.
TimerSwitch ==
    /\ timerPc = "switch"
    /\ ProcessAlive
    /\ IF SwitchCond(running)
       THEN /\ current_state' = Switch(current_state, session_count).state
            /\ session_count' = Switch(current_state, session_count).count
       ELSE UNCHANGED <<current_state, session_count>>
    /\ timerPc' = "outer"
    /\ UNCHANGED <<elapsed_time, display, running, chan, histTimer, mainVars,
                   config, lastLine>>

TimerNext ==
    \/ TimerOuter
    \/ TimerIdle
    \/ TimerPoll
    \/ TimerTick
    \/ TimerAfter
    \/ TimerSwitch

\* ------------------------------------------------------------ main thread
\* One line of the input loop: parse it and send the command.  A send fails
\* when the receiver is gone; unwrap() then panics, except for Resume.  Any
\* other line prints the usage hint.
MainLineFor(line) ==
    /\ mainPc = "reading"
    /\ nLines < MaxLines
    /\ LET cmd == ParseLine(line) IN
         /\ nLines' = nLines + 1
         /\ quit' = (quit \/ cmd = "Quit")
         /\ IF cmd = "Unknown"
            THEN /\ UNCHANGED <<chan, sentLog>>
                 /\ \E usageFailed \in WriteFails :
                      IF usageFailed
                      THEN mainPc' = "panicked" /\ mainPanic' = "io"
                      ELSE UNCHANGED <<mainPc, mainPanic>>
            ELSE IF ReceiverAlive
                 THEN /\ chan' = ChanSend(chan, cmd)
                      /\ sentLog' = Append(sentLog, cmd)
                      /\ mainPc' = IF cmd = "Quit" THEN "store" ELSE mainPc
                      /\ UNCHANGED mainPanic
                 ELSE /\ UNCHANGED <<chan, sentLog>>
                      /\ IF cmd = "Resume"
                         THEN UNCHANGED <<mainPc, mainPanic>>
                         ELSE mainPc' = "panicked" /\ mainPanic' = "send"
    /\ UNCHANGED <<running, timerVars, histTimer, goodbye, config>>

\* The input loop handles the next line of standard input.
MainLine == \E line \in Lines : MainLineFor(line) /\ UNCHANGED lastLine

\* The same, the line being recorded.
MainLineRecorded == \E line \in Lines : MainLineFor(line) /\ lastLine' = line

\* What is on record for an item of stdin().lines() that is no text.
Unreadable == <<"U+FFFD">>

\* stdin().lines() yields an Err (the bytes read are not UTF-8, or the read
\* fails): line.unwrap() panics.
MainLineErrStep ==
    /\ mainPc = "reading"
    /\ nLines < MaxLines
    /\ nLines' = nLines + 1
    /\ mainPc' = "panicked"
    /\ mainPanic' = "io"
    /\ UNCHANGED <<running, chan, timerVars, histTimer, quit, goodbye,
                   sentLog, config>>

\* The input loop finds the next item of standard input unreadable.
MainLineErr == MainLineErrStep /\ UNCHANGED lastLine

\* The same, the item being recorded.
MainLineErrRecorded == MainLineErrStep /\ lastLine' = Unreadable

\* The panic of main has unwound it (the sender is dropped by then) and the
\* process ends with the panic's exit code.
MainExit ==
    /\ mainPc = "panicked"
    /\ mainPc' = "aborted"
    /\ UNCHANGED <<running, chan, timerVars, histTimer, nLines, quit, goodbye,
                   sentLog, mainPanic, config, lastLine>>

\* Standard input ends: the for loop is left, the sender stays in scope.
MainEof ==
    /\ mainPc = "reading"
    /\ mainPc' = "join"
    /\ UNCHANGED <<running, chan, timerVars, histTimer, nLines, quit, goodbye,
                   sentLog, mainPanic, config, lastLine>>

\* Variant: the "q" branch stores the flag but does not break.
MainStore_NoBreak ==
    /\ mainPc = "store"
    /\ running' = QuitStoreValue
    /\ mainPc' = "reading"
    /\ UNCHANGED <<chan, timerVars, histTimer, nLines, quit, goodbye, sentLog,
                   mainPanic, config, lastLine>>

\* running.store(false); break
MainStore ==
    /\ mainPc = "store"
    /\ running' = QuitStoreValue
    /\ mainPc' = "join"
    /\ UNCHANGED <<chan, timerVars, histTimer, nLines, quit, goodbye, sentLog,
                   mainPanic, config, lastLine>>

\* timer_thread.join().unwrap(), which panics when the timer thread
\* panicked; then the final message.
MainJoin ==
    /\ mainPc = "join"
    /\ ~ReceiverAlive
    /\ IF timerPc = "exited"
       THEN \E goodbyeFailed \in WriteFails :
              IF goodbyeFailed
              THEN /\ mainPc' = "panicked"
                   /\ mainPanic' = "io"
                   /\ UNCHANGED goodbye
              ELSE /\ mainPc' = "done"
                   /\ goodbye' = TRUE
                   /\ UNCHANGED mainPanic
       ELSE /\ mainPc' = "panicked"
            /\ mainPanic' = "join"
            /\ UNCHANGED goodbye
    /\ UNCHANGED <<running, chan, timerVars, histTimer, nLines, quit, sentLog,
                   config, lastLine>>

MainNext ==
    \/ MainLine
    \/ MainLineErr
    \/ MainEof
    \/ MainStore
    \/ MainJoin
    \/ MainExit

Next == TimerNext \/ MainNext

Spec == Init /\ [][Next]_vars

\* The program when every sleep of the countdown takes one second and a
\* fraction, so that after t ticks elapsed_time has t whole seconds.
ExactNext ==
    \/ TimerOuter
    \/ TimerIdle
    \/ TimerPoll
    \/ TimerTickExact
    \/ TimerAfter
    \/ TimerSwitch
    \/ MainNext

ExactSpec == Init /\ [][ExactNext]_vars

\* The program with the line read last on record.
InputNext ==
    \/ TimerNext
    \/ MainLineRecorded
    \/ MainLineErrRecorded
    \/ MainEof
    \/ MainStore
    \/ MainJoin
    \/ MainExit

\* The long runs: up to MaxLongSessions sessions of up to MaxLongMinutes
\* minutes each, with up to MaxLongLines items of standard input.
LongInit == InitWith(MaxLongMinutes)

LongLine == nLines < MaxLongLines /\ MainLine

LongLineErr == nLines < MaxLongLines /\ MainLineErr

LongNext ==
    \/ TimerOuterLong
    \/ TimerIdle
    \/ TimerPoll
    \/ TimerTick
    \/ TimerAfter
    \/ TimerSwitch
    \/ LongLine
    \/ LongLineErr
    \/ MainEof
    \/ MainStore
    \/ MainJoin
    \/ MainExit

LongSpec == LongInit /\ [][LongNext]_vars

\* The liveness properties and the input lines are checked for the
\* shortest work and break durations.
FairInit == Init /\ work_minutes = MinMinutes /\ break_minutes = MinMinutes

InputSpec == FairInit /\ [][InputNext]_vars

\* Both threads are scheduled fairly; reading a line waits for the user, so
\* MainLine and MainEof carry no fairness.
FairSpec ==
    /\ FairInit
    /\ [][Next]_vars
    /\ WF_vars(TimerNext)
    /\ WF_vars(MainStore)
    /\ WF_vars(MainJoin)
    /\ WF_vars(MainExit)

\* ----------------------------------------------------------------- claims
Range(s) == {s[i] : i \in DOMAIN s}
QuitSent == "Quit" \in Range(sentLog)
PauseConsumed == "Pause" \in Range(recvLog)
NSkipped == Cardinality({i \in DOMAIN recvLog : recvLog[i] = "Skip"})
TimerTerminated == timerPc \in {"exited", "panicked"}
OtherSession(st) == IF st = "Work" THEN "Break" ELSE "Work"

\* C1: once the main thread has sent Quit, no step prints a further
\* "Session Started" or "Session Finished!" line.
C1_NoNotificationAfterQuit ==
    [][QuitSent => (started' = started /\ finished' = finished)]_vars

\* C2: after running has become false the timer thread sleeps through at
\* most one more countdown tick before it leaves its outer loop.
C2_ExitWithinOneTick == ticksAfterStop <= 1

\* C3: once a "q" line has been handled the input loop reads no further
\* line, the timer thread eventually terminates, the main thread eventually
\* prints its final message (unless the timer thread panicked or the message
\* could not be written), and that message is printed only after the timer
\* thread has finished.
C3_QuitTerminates ==
    /\ [](quit => mainPc # "reading")
    /\ quit ~> TimerTerminated
    /\ quit ~> (goodbye \/ timerPc = "panicked" \/ mainPanic = "io")
    /\ [](goodbye => timerPc = "exited")

\* Quit was entered while the timer was Paused and was never received (the
\* flag alone stopped the timer); the program has ended with its final
\* message.
C3_Witness ==
    /\ goodbye
    /\ current_state = "Paused"
    /\ Len(sentLog) > Len(recvLog)
    /\ QuitSent

\* C4: when standard input ends without a "q" line, the timer thread
\* eventually terminates as it does after Quit (or the model's session bound
\* is reached first).
C4_EofActsAsQuit ==
    (mainPc = "join" /\ ~quit) ~>
        (TimerTerminated \/ Len(started) = MaxSessions)

\* C5 as stated: every increment of session_count follows a countdown that
\* ran to completion.
C5_OnlyNaturalIncrements ==
    [][session_count' # session_count => exitKind = "natural"]_vars

\* C5 amended: every increment of session_count is by one and follows a
\* countdown that ran to completion or was cut short by Skip, and the counter
\* is the number of such countdowns, less one while (or when) the last of
\* them has not been counted.
C5_CountsCompletedOrSkipped ==
    /\ [][session_count' # session_count =>
            (session_count' = session_count + 1
             /\ exitKind \in {"natural", "skip"})]_vars
    /\ [](session_count <= nNatural + NSkipped)
    /\ [](session_count >= nNatural + NSkipped - 1)

\* One session was skipped, one ran to completion, both were counted.
C5_Witness ==
    /\ NSkipped = 1
    /\ nNatural = 1
    /\ session_count = 2

\* C6: the switch step of a session that printed its "Finished" line
\* increments session_count by one and switches to the other session type.
C6_FinishedIsCounted ==
    [][(timerPc = "switch" /\ finNotified /\ timerPc' = "outer") =>
         (session_count' = session_count + 1
          /\ current_state' = OtherSession(current_state))]_vars

\* C7: the first session started is Work and every later one has the other
\* type than the one started before it, for all configured durations.
C7_SessionsAlternate ==
    /\ (started # <<>> => started[1] = "Work")
    /\ \A i \in 1..(Len(started) - 1) : started[i + 1] # started[i]

\* An uninterrupted run with different work and break durations has started
\* its third session, a Work session after a Break session, the two before
\* it having run to completion.
C7_Witness ==
    /\ started = <<"Work", "Break", "Work">>
    /\ finished = <<"Work", "Break">>
    /\ work_minutes # break_minutes
    /\ nLines = 0
    /\ timerPc = "sleep"

\* C8: running is true initially, and no step makes it true again once it
\* is false (every write stores false).
C8_ShutdownMonotonic ==
    /\ running = TRUE
    /\ [][running' => running]_vars

\* Both threads have stored false: the timer on receiving Quit, main after
\* sending it.
C8_Witness ==
    /\ ~running
    /\ "Quit" \in Range(recvLog)
    /\ mainPc = "join"

\* C9: session_count never decreases, and no step taken in, or entering,
\* the Paused state changes it.
C9_CounterFrozenWhilePaused ==
    [][/\ session_count' >= session_count
       /\ (current_state = "Paused" \/ current_state' = "Paused")
             => session_count' = session_count]_vars

\* The timer idles in Paused after having counted a session.
C9_Witness ==
    /\ current_state = "Paused"
    /\ timerPc = "idle"
    /\ session_count = 1

\* C10: once a Pause has been received no step prints a "Session Started"
\* or "Session Finished!" line, in particular none for the paused session.
C10_NoNotificationAfterPause ==
    [][(PauseConsumed \/ "Pause" \in Range(recvLog')) =>
          (started' = started /\ finished' = finished)]_vars

\* A Pause was received, Quit followed, and the program has terminated.
C10_Witness ==
    /\ PauseConsumed
    /\ quit
    /\ goodbye
    /\ finished = <<>>

\* Whether sequence s is a prefix of sequence t.
IsPrefix(s, t) == Len(s) <= Len(t) /\ \A i \in DOMAIN s : s[i] = t[i]

\* C11: the commands received so far are a prefix of the commands sent so
\* far (so they are received in sending order, each at most once).
C11_ReceivedIsPrefixOfSent == IsPrefix(recvLog, sentLog)

\* Two different commands were queued together and both were received.
C11_Witness ==
    /\ recvLog = <<"Resume", "Pause">>
    /\ sentLog = recvLog

\* The line "Time remaining: MM:SS" for r seconds.
ShownFor(r) == <<r \div 60, r % 60>>

\* C12: with ticks of exactly one second and no command ending the
\* countdown, after tick t, for every t in 0..duration, the line on display
\* is the one for duration - t.
C12_DisplayAtEveryTick ==
    (timerPc \in {"sleep", "after"} /\ exitKind \in {"none", "natural"})
      => display = ShownFor(DurationOf(current_state) - exactTick)

\* C13 as stated: the countdown goes on only while elapsed < duration, it is
\* left naturally only with elapsed >= duration, and then
\* elapsed <= duration + one tick.
C13_ElapsedWithinOneTick ==
    LET dur == DurationOf(current_state) IN
    /\ (timerPc = "sleep" => elapsed_time < dur)
    /\ (timerPc = "after" /\ exitKind = "natural")
         => (elapsed_time >= dur /\ elapsed_time <= dur + TickSecs)

\* C13 amended: at the natural exit elapsed exceeds the duration by less
\* than the length of the last sleep, one tick plus its overshoot.
C13_ElapsedWithinLastSleep ==
    LET dur == DurationOf(current_state) IN
    /\ (timerPc = "sleep" => elapsed_time < dur)
    /\ (timerPc = "after" /\ exitKind = "natural")
         => (elapsed_time >= dur
             /\ elapsed_time < dur + TickSecs + MaxOvershoot)
    /\ (timerPc = "after" /\ exitKind # "natural" /\ current_state # "Paused")
         => elapsed_time < dur

\* A countdown was left naturally with the largest possible elapsed time.
C13_Witness ==
    /\ timerPc = "after"
    /\ exitKind = "natural"
    /\ elapsed_time = DurationOf(current_state) + TickSecs + MaxOvershoot - 1

\* C14: once the state is Paused, every later state is Paused, whatever
\* commands (Resume included) were or are sent.
C14_PauseIsPermanent ==
    [][current_state = "Paused" => current_state' = "Paused"]_vars

\* The timer idles in Paused with a Resume, sent after the Pause, queued.
C14_Witness ==
    /\ current_state = "Paused"
    /\ timerPc = "idle"
    /\ sentLog = <<"Pause", "Resume">>
    /\ chan = <<"Resume">>

\* C15: for a session ended by Skip, no "Finished" line is printed; its
\* switch step, when it finds running true, increments session_count by one
\* and switches to the other session type; and the session started next
\* begins with elapsed time zero.
C15_SkipSwitchesAndCounts ==
    [][exitKind = "skip" =>
         /\ finished' = finished
         /\ (timerPc = "switch" /\ timerPc' = "outer" /\ running)
              => (session_count' = session_count + 1
                  /\ current_state \in {"Work", "Break"}
                  /\ current_state' = OtherSession(current_state))
         /\ started' # started => elapsed_time' = 0]_vars

\* A Work session was skipped after it had ticked; the Break session after
\* it has started at zero, the skipped one counted and not reported finished.
C15_Witness ==
    /\ recvLog = <<"Skip">>
    /\ started = <<"Work", "Break">>
    /\ session_count = 1
    /\ finished = <<>>
    /\ elapsed_time = 0
    /\ timerPc = "loop"
    /\ display # <<1, 0>>

\* C16: a command queued while the timer is Paused is eventually received
\* (or the timer thread terminates, or the process ends, first).
C16_PausedCommandsAreReceived ==
    (current_state = "Paused" /\ chan # <<>>) ~>
        (chan = <<>> \/ TimerTerminated \/ ~ProcessAlive)

\* C17: Quit is sent at most once and nothing is sent after it; once it is
\* sent the input loop reads no further line, and when main has gone on to
\* the join the flag is false.
C17_QuitIsLastCommand ==
    /\ \A i \in DOMAIN sentLog : sentLog[i] = "Quit" => i = Len(sentLog)
    /\ QuitSent => mainPc \in {"store", "join", "done", "panicked", "aborted"}
    /\ (QuitSent /\ mainPc \in {"join", "done"}) => ~running

\* A command and then Quit were sent; main has stored the flag and joins.
C17_Witness ==
    /\ sentLog = <<"Skip", "Quit">>
    /\ mainPc = "join"
    /\ nLines = 2

\* Whether line is one of the two letters with only whitespace around it.
IsCommandLine(line, lower, upper) ==
    \E i \in DOMAIN line :
        /\ line[i] \in {lower, upper}
        /\ \A j \in DOMAIN line \ {i} : line[j] \in Whitespace

\* The command a line is meant to give.
Intended(line) ==
    CASE IsCommandLine(line, "p", "P") -> "Pause"
      [] IsCommandLine(line, "r", "R") -> "Resume"
      [] IsCommandLine(line, "s", "S") -> "Skip"
      [] IsCommandLine(line, "q", "Q") -> "Quit"
      [] OTHER -> "Unknown"

\* C18: handling a line never changes the flag, the timer state or the
\* session count; a line that is not p, r, s or q (in either case, within
\* whitespace) leaves the channel as it is and sends nothing, and each of
\* those letters sends exactly its command (to a live receiver).
C18_LineSendsItsCommand ==
    [][nLines' # nLines =>
         LET cmd == Intended(lastLine') IN
         /\ UNCHANGED <<running, current_state, session_count>>
         /\ IF cmd = "Unknown" \/ ~ReceiverAlive
            THEN UNCHANGED <<chan, sentLog>>
            ELSE /\ chan' = Append(chan, cmd)
                 /\ sentLog' = Append(sentLog, cmd)]_vars

\* An unknown line and then " Q " were read: only Quit was sent.
C18_Witness ==
    /\ nLines = 2
    /\ lastLine = <<" ", "Q", " ">>
    /\ sentLog = <<"Quit">>
    /\ chan = <<"Quit">>

\* C19: the timer state is always Work, Break or Paused (never Stopped), and
\* only steps of the timer thread change it.
C19_NeverStopped ==
    /\ [](current_state \in {"Work", "Break", "Paused"})
    /\ [][current_state' # current_state =>
            (timerPc \in {"loop", "switch"} /\ timerPc' # timerPc
             /\ UNCHANGED <<mainPc, nLines, sentLog>>)]_vars

\* The state has been Work, Break and then Paused, and the thread has
\* left its loop on the flag.
C19_Witness ==
    /\ current_state = "Paused"
    /\ started = <<"Work", "Break">>
    /\ timerPc = "exited"

\* C20: unless the timer thread has panicked, it has not terminated while
\* the input loop can still send, and main has not panicked on a send.
C20_ReceiverOutlivesSends ==
    timerPc # "panicked" =>
        /\ mainPanic # "send"
        /\ timerPc = "exited" => mainPc # "reading"

\* The timer thread has received Quit and left its loop while main has not
\* yet stored the flag.
C20_Witness ==
    /\ timerPc = "exited"
    /\ mainPc = "store"
    /\ recvLog = sentLog

====
